---- MODULE Spec2Model ----
(***************************************************************************)
(* Thermal-comfort controller (proyecto.ino): the 7-state supervisor, its   *)
(* single pending event `input`, the shared timer TaskTime, the credential  *)
(* check, the PMV classification, the overheat counter and the RFID tag     *)
(* registry.  One step of the model is one iteration of loop().             *)
(*                                                                         *)
(* Floats are records [nan, v]: v is the value in fixed point (temperature  *)
(* in tenths of a degree, PMV in hundredths) and nan marks the sensor's     *)
(* invalid reading; comparisons follow IEEE (false when an operand is NaN). *)
(* Time is in milliseconds.                                                 *)
(***************************************************************************)
EXTENDS Integers, Sequences, FiniteSets, TLC

VARIABLES
  state,                \* stateMachine.GetState()
  input,                \* Input input
  conteoTempAlta,       \* int conteoTempAlta
  tiempoMonitorVencido, \* bool tiempoMonitorVencido
  tarjetaProcesada,     \* bool tarjetaProcesada
  clave_user,           \* char clave_user[6]
  tempA,                \* float tempA
  humedad,              \* float humedad
  taskTime,             \* AsyncTask TaskTime: [active, interval, elapsed]
  tasks,                \* the active ones among TaskLedRed/Green/Blue, TaskBuzzer, TaskServo
  fanPin,               \* level of FAN_PIN
  pins,                 \* the ones among LED_RED, LED_GREEN, LED_BLUE, BUZZER_PIN that are HIGH
  eeprom,               \* the MAX_RECORDS tag records
  hist,                 \* what the last loop() iteration did (observation only)
  rules,                \* the transitions added to stateMachine, in the order added
  servo,                \* servoPos, servoUp, TaskServo and the last angle given to servo.write
  solver                \* the locals of a calcularPMV_Fanger call followed statement by statement

vars == <<state, input, conteoTempAlta, tiempoMonitorVencido, tarjetaProcesada,
          clave_user, tempA, humedad, taskTime, tasks, fanPin, pins, eeprom, hist,
          rules, servo, solver>>

----------------------------------------------------------------------------
(* Bounds of the model *)

\* time that passes between two TaskTime.Update() calls: 0..MaxDtSteps steps of DtStep ms
DtStep == 1400
MaxDtSteps == 1

DtSet == {k * DtStep : k \in 0..MaxDtSteps}

----------------------------------------------------------------------------
(* Floats *)

F(x) == [nan |-> FALSE, v |-> x]
NaN == [nan |-> TRUE, v |-> 0]
isnan(a) == a.nan
FLt(a, b) == ~a.nan /\ ~b.nan /\ a.v < b.v
FGt(a, b) == ~a.nan /\ ~b.nan /\ a.v > b.v

\* Arduino's constrain(amt, low, high): ((amt)<(low)?(low):((amt)>(high)?(high):(amt)))
constrain(amt, low, high) ==
  IF FLt(amt, low) THEN low ELSE IF FGt(amt, high) THEN high ELSE amt

----------------------------------------------------------------------------
(* enum State, enum Input *)

States == {"INICIO", "CONFIG", "ALARMA", "MONITOR", "BLOQUEO", "PMV_ALTO", "PMV_BAJO"}

Inputs == {"SISTEMA_BLOQUEADO", "TECLA_ASTERISCO", "CLAVE_CORRECTA", "TIEMPO_EXPIRADO",
           "PMV_MENOR_QUE_MENOS1", "PMV_MAYOR_QUE_1", "TEMP_ALTA_3_INTENTOS",
           "SENSOR_INFRARROJO", "Unknown"}

\* const char clave[6]
clave == <<"2", "0", "2", "5", "2", "A">>

\* Transitions with the rule MONITOR + TIEMPO_EXPIRADO leading back to INICIO
Transitions_MonitorToInicio ==
  << <<"INICIO",   "CONFIG",   "CLAVE_CORRECTA">>,
     <<"INICIO",   "BLOQUEO",  "SISTEMA_BLOQUEADO">>,
     <<"BLOQUEO",  "INICIO",   "TECLA_ASTERISCO">>,
     <<"CONFIG",   "MONITOR",  "TIEMPO_EXPIRADO">>,
     <<"MONITOR",  "PMV_BAJO", "PMV_MENOR_QUE_MENOS1">>,
     <<"MONITOR",  "PMV_ALTO", "PMV_MAYOR_QUE_1">>,
     <<"MONITOR",  "INICIO",   "TIEMPO_EXPIRADO">>,
     <<"PMV_BAJO", "MONITOR",  "TIEMPO_EXPIRADO">>,
     <<"PMV_ALTO", "MONITOR",  "TIEMPO_EXPIRADO">>,
     <<"PMV_ALTO", "ALARMA",   "TEMP_ALTA_3_INTENTOS">>,
     <<"ALARMA",   "INICIO",   "SENSOR_INFRARROJO">> >>

\* Transitions with the lambda of BLOQUEO -> INICIO also true on TIEMPO_EXPIRADO
Transitions_UnlockOnTimeout ==
  << <<"INICIO",   "CONFIG",   "CLAVE_CORRECTA">>,
     <<"INICIO",   "BLOQUEO",  "SISTEMA_BLOQUEADO">>,
     <<"BLOQUEO",  "INICIO",   "TECLA_ASTERISCO">>,
     <<"BLOQUEO",  "INICIO",   "TIEMPO_EXPIRADO">>,
     <<"CONFIG",   "MONITOR",  "TIEMPO_EXPIRADO">>,
     <<"MONITOR",  "PMV_BAJO", "PMV_MENOR_QUE_MENOS1">>,
     <<"MONITOR",  "PMV_ALTO", "PMV_MAYOR_QUE_1">>,
     <<"MONITOR",  "CONFIG",   "TIEMPO_EXPIRADO">>,
     <<"PMV_BAJO", "MONITOR",  "TIEMPO_EXPIRADO">>,
     <<"PMV_ALTO", "MONITOR",  "TIEMPO_EXPIRADO">>,
     <<"PMV_ALTO", "ALARMA",   "TEMP_ALTA_3_INTENTOS">>,
     <<"ALARMA",   "INICIO",   "SENSOR_INFRARROJO">> >>

\* Transitions_MonitorToInicio with the rule MONITOR + TIEMPO_EXPIRADO -> CONFIG added as
\* well: two rules of MONITOR on one input
Transitions_Ambiguous ==
  Append(Transitions_MonitorToInicio, <<"MONITOR", "CONFIG", "TIEMPO_EXPIRADO">>)

\* the rules in the order setupStateMachine adds them: <<from, to, input that enables it>>
Transitions ==
  << <<"INICIO",   "CONFIG",   "CLAVE_CORRECTA">>,
     <<"INICIO",   "BLOQUEO",  "SISTEMA_BLOQUEADO">>,
     <<"BLOQUEO",  "INICIO",   "TECLA_ASTERISCO">>,
     <<"CONFIG",   "MONITOR",  "TIEMPO_EXPIRADO">>,
     <<"MONITOR",  "PMV_BAJO", "PMV_MENOR_QUE_MENOS1">>,
     <<"MONITOR",  "PMV_ALTO", "PMV_MAYOR_QUE_1">>,
     <<"MONITOR",  "CONFIG",   "TIEMPO_EXPIRADO">>,
     <<"PMV_BAJO", "MONITOR",  "TIEMPO_EXPIRADO">>,
     <<"PMV_ALTO", "MONITOR",  "TIEMPO_EXPIRADO">>,
     <<"PMV_ALTO", "ALARMA",   "TEMP_ALTA_3_INTENTOS">>,
     <<"ALARMA",   "INICIO",   "SENSOR_INFRARROJO">> >>

----------------------------------------------------------------------------
(* AsyncTask (AsyncTaskLib): an interval, an active flag and the time since  *)
(* the last Start/Reset.  TaskTime is declared auto-resetting.               *)

\* an assignment input = ev made by one of the producers that run before the
\* evaluation: the serial intake, runTime, checkBloqueo, checkPMV, checkMovimiento
Raise(m, ev) == [m EXCEPT !.input = ev, !.writes = @ + 1]

SetIntervalMillis(t, ms) == [t EXCEPT !.interval = ms]
Start(t) == [t EXCEPT !.active = TRUE, !.elapsed = 0]

\* runTime() raising nothing outside MONITOR
runTime_MonitorOnly(m) ==
  IF m.state = "MONITOR" THEN [m EXCEPT !.tiempoMonitorVencido = TRUE] ELSE m

\* void runTime(): the callback of TaskTime
runTime(m) ==
  IF m.state = "MONITOR"
    THEN [m EXCEPT !.tiempoMonitorVencido = TRUE]
    ELSE Raise(m, "TIEMPO_EXPIRADO")

\* TaskTime.Update() after dt more milliseconds: when the interval has elapsed the
\* task resets itself (autoReset) and runs its callback
TaskTimeUpdate(m, dt) ==
  LET t == m.taskTime
      e == t.elapsed + dt
  IN IF ~t.active THEN m
     ELSE IF e >= t.interval
       THEN runTime([m EXCEPT !.taskTime.elapsed = 0, !.hist.fired = TRUE])
       ELSE [m EXCEPT !.taskTime.elapsed = e]

----------------------------------------------------------------------------
(* Credential check *)

\* readPassword(): the six keys captured go to clave_user; TaskTime is re-armed at
\* 300 ms after each key.  idle says that keypad.getKey() returned NO_KEY at least
\* once, so that the while (key == NO_KEY) loop spun until a key was pressed
readPassword(m, pw, idle) ==
  [m EXCEPT !.clave_user = pw,
            !.taskTime = Start(SetIntervalMillis(m.taskTime, 300)),
            !.hist.waited = @ \/ idle]

\* checkPassword comparing only the first five keys
checkPasswordFrom_FiveKeys(user, i) == \A k \in i..5 : user[k] = clave[k]

\* the for loop of checkPassword from index i (1-based): false at the first mismatch
RECURSIVE checkPasswordFrom(_, _)
checkPasswordFrom(user, i) ==
  IF i > 6 THEN TRUE
  ELSE IF user[i] # clave[i] THEN FALSE
  ELSE checkPasswordFrom(user, i + 1)

checkPassword(m) == checkPasswordFrom(m.clave_user, 1)

----------------------------------------------------------------------------
(* Sensors and PMV *)

\* leerSensores(): stores the DHT reading; the isnan test only prints and returns
leerSensores(m, s) == [m EXCEPT !.tempA = s.ta, !.humedad = s.rh]

\* calcularPMV_Fanger: raw is the value of the Fanger expression (line 1789) for a
\* valid sample; a NaN air temperature or humidity propagates through pa, tcl and
\* the heat-loss terms to the result, and constrain() returns a NaN unchanged
calcularPMV_Fanger(ta, rh, raw) ==
  LET pmv == IF isnan(ta) \/ isnan(rh) THEN NaN ELSE F(raw)
  IN constrain(pmv, F(-300), F(300))

\* checkPMV with the two comparisons made inclusive (pmv <= -1, pmv >= 1)
classifyPMV_Inclusive(pmv) ==
  IF ~isnan(pmv) /\ pmv.v <= -100 THEN "PMV_MENOR_QUE_MENOS1"
  ELSE IF ~isnan(pmv) /\ pmv.v >= 100 THEN "PMV_MAYOR_QUE_1"
  ELSE "TIEMPO_EXPIRADO"

\* the if/else chain of checkPMV that turns pmv into an input
classifyPMV(pmv) ==
  IF FLt(pmv, F(-100)) THEN "PMV_MENOR_QUE_MENOS1"
  ELSE IF FGt(pmv, F(100)) THEN "PMV_MAYOR_QUE_1"
  ELSE "TIEMPO_EXPIRADO"

\* checkPMV without tiempoMonitorVencido = false
checkPMV_FlagLeft(m, s) ==
  IF m.state = "MONITOR" /\ m.tiempoMonitorVencido
    THEN LET m1 == leerSensores(m, s)
             pmv == calcularPMV_Fanger(m1.tempA, m1.humedad, s.raw)
         IN [Raise(m1, classifyPMV(pmv)) EXCEPT
                       !.taskTime = Start(m1.taskTime),
                       !.hist.chk = [ran |-> TRUE, ta |-> s.ta, rh |-> s.rh,
                                     computed |-> TRUE, pmv |-> pmv,
                                     event |-> classifyPMV(pmv)]]
    ELSE m

\* void checkPMV()
checkPMV(m, s) ==
  IF m.state = "MONITOR" /\ m.tiempoMonitorVencido
    THEN LET m1 == leerSensores([m EXCEPT !.tiempoMonitorVencido = FALSE], s)
             pmv == calcularPMV_Fanger(m1.tempA, m1.humedad, s.raw)
         IN [Raise(m1, classifyPMV(pmv)) EXCEPT
                       !.taskTime = Start(m1.taskTime),
                       !.hist.chk = [ran |-> TRUE, ta |-> s.ta, rh |-> s.rh,
                                     computed |-> TRUE, pmv |-> pmv,
                                     event |-> classifyPMV(pmv)]]
    ELSE m

\* void checkBloqueo(): key is what keypad.getKey() returns ("" for NO_KEY)
checkBloqueo(m, key) ==
  IF m.state = "BLOQUEO" /\ key = "*"
    THEN Raise(m, "TECLA_ASTERISCO")
    ELSE m

\* checkMovimiento raising its input only when none is pending
checkMovimiento_OnlyIfIdle(m, pirLow) ==
  IF m.state = "ALARMA" /\ pirLow
    THEN IF m.input = "Unknown"
           THEN [Raise(m, "SENSOR_INFRARROJO") EXCEPT !.hist.motion = TRUE]
           ELSE [m EXCEPT !.hist.motion = TRUE]
    ELSE m

\* void checkMovimiento(): pirLow is digitalRead(PIR_SENSOR) == LOW
checkMovimiento(m, pirLow) ==
  IF m.state = "ALARMA" /\ pirLow
    THEN [Raise(m, "SENSOR_INFRARROJO") EXCEPT !.hist.motion = TRUE]
    ELSE m

\* readInputSerial whose default case returns TIEMPO_EXPIRADO
readInputSerial_DefaultTimeout(ch) ==
  CASE ch = "0" -> "SISTEMA_BLOQUEADO"
    [] ch = "1" -> "TECLA_ASTERISCO"
    [] ch = "2" -> "CLAVE_CORRECTA"
    [] ch = "3" -> "TIEMPO_EXPIRADO"
    [] ch = "4" -> "PMV_MENOR_QUE_MENOS1"
    [] ch = "5" -> "PMV_MAYOR_QUE_1"
    [] ch = "6" -> "TEMP_ALTA_3_INTENTOS"
    [] ch = "7" -> "SENSOR_INFRARROJO"
    [] ch = "" -> "Unknown"
    [] OTHER -> "TIEMPO_EXPIRADO"

\* int readInputSerial(): ch is the character read, "" when none is available
readInputSerial(ch) ==
  CASE ch = "0" -> "SISTEMA_BLOQUEADO"
    [] ch = "1" -> "TECLA_ASTERISCO"
    [] ch = "2" -> "CLAVE_CORRECTA"
    [] ch = "3" -> "TIEMPO_EXPIRADO"
    [] ch = "4" -> "PMV_MENOR_QUE_MENOS1"
    [] ch = "5" -> "PMV_MAYOR_QUE_1"
    [] ch = "6" -> "TEMP_ALTA_3_INTENTOS"
    [] ch = "7" -> "SENSOR_INFRARROJO"
    [] OTHER -> "Unknown"

----------------------------------------------------------------------------
(* Entry actions (SetOnEntering) and exit actions (SetOnLeaving).  Each one  *)
(* notes its name in hist.calls.                                             *)

Called(m, name) == [m EXCEPT !.hist.calls = Append(@, name)]

\* void outputInicio(): pw is the six keys that readPassword captures
outputInicio(m, pw, idle) ==
  LET m0 == [Called(m, "outputInicio") EXCEPT
               !.input = "Unknown",
               !.hist.atInicio = <<[redOn |-> "LED_RED" \in m.pins,
                                    redTask |-> "TaskLedRed" \in m.tasks]>>]
      m1 == readPassword(m0, pw, idle)
      t  == Start(SetIntervalMillis(m1.taskTime, 5000))
  IN IF checkPassword(m1)
       THEN [m1 EXCEPT !.taskTime = t, !.input = "CLAVE_CORRECTA"]
       ELSE [m1 EXCEPT !.taskTime = t, !.input = "SISTEMA_BLOQUEADO"]

\* void outputConfig()
outputConfig(m) ==
  [Called(m, "outputConfig") EXCEPT
     !.input = "Unknown",
     !.taskTime = Start(SetIntervalMillis(m.taskTime, 5000)),
     !.tarjetaProcesada = FALSE]

\* void outputAlarma(): TaskTime is left as it is
outputAlarma(m) ==
  [Called(m, "outputAlarma") EXCEPT
     !.input = "Unknown",
     !.pins = @ \ {"BUZZER_PIN"},
     !.tasks = @ \cup {"TaskBuzzer"}]

\* void outputBloqueo(): TaskTime is left as it is
outputBloqueo(m) ==
  [Called(m, "outputBloqueo") EXCEPT
     !.input = "Unknown",
     !.pins = @ \ {"LED_RED"},
     !.tasks = @ \cup {"TaskLedRed"}]

\* outputMonitor without TaskTime.SetIntervalMillis(7000); TaskTime.Start()
outputMonitor_NoStart(m, s) ==
  leerSensores([Called(m, "outputMonitor") EXCEPT !.input = "Unknown"], s)

\* void outputMonitor(): s is the sample leerSensores reads
outputMonitor(m, s) ==
  LET m1 == leerSensores([Called(m, "outputMonitor") EXCEPT !.input = "Unknown"], s)
  IN [m1 EXCEPT !.taskTime = Start(SetIntervalMillis(m1.taskTime, 7000))]

\* void outputPMV_Bajo()
outputPMV_Bajo(m) ==
  [Called(m, "outputPMV_Bajo") EXCEPT
     !.input = "Unknown",
     !.taskTime = Start(SetIntervalMillis(m.taskTime, 3000)),
     !.pins = @ \ {"LED_GREEN"},
     !.tasks = @ \cup {"TaskLedGreen", "TaskServo"}]

\* outputPMV_Alto raising the alarm input only at the fourth hot reading
outputPMV_Alto_FourReads(m, t) ==
  LET hot   == FGt(t, F(300))
      c1    == IF hot THEN m.conteoTempAlta + 1 ELSE 0
      raise == c1 >= 4
  IN [Called(m, "outputPMV_Alto") EXCEPT
        !.tempA = t,
        !.conteoTempAlta = IF raise THEN 0 ELSE c1,
        !.input = IF raise THEN "TEMP_ALTA_3_INTENTOS" ELSE "Unknown",
        !.taskTime = Start(SetIntervalMillis(m.taskTime, 4000)),
        !.pins = @ \ {"LED_BLUE"},
        !.tasks = @ \cup {"TaskLedBlue"},
        !.fanPin = TRUE,
        !.hist.highReads = SubSeq(Append(@, [hot |-> hot, raised |-> raise]),
                                  IF Len(@) >= 3 THEN 2 ELSE 1, Len(@) + 1)]

\* outputPMV_Alto without the else branch that clears the counter
outputPMV_Alto_NoReset(m, t) ==
  LET hot   == FGt(t, F(300))
      c1    == IF hot THEN m.conteoTempAlta + 1 ELSE m.conteoTempAlta
      raise == c1 >= 3
  IN [Called(m, "outputPMV_Alto") EXCEPT
        !.tempA = t,
        !.conteoTempAlta = IF raise THEN 0 ELSE c1,
        !.input = IF raise THEN "TEMP_ALTA_3_INTENTOS" ELSE "Unknown",
        !.taskTime = Start(SetIntervalMillis(m.taskTime, 4000)),
        !.pins = @ \ {"LED_BLUE"},
        !.tasks = @ \cup {"TaskLedBlue"},
        !.fanPin = TRUE,
        !.hist.highReads = SubSeq(Append(@, [hot |-> hot, raised |-> raise]),
                                  IF Len(@) >= 3 THEN 2 ELSE 1, Len(@) + 1)]

\* outputPMV_Alto leaving the counter at 2 when it raises the alarm input
outputPMV_Alto_KeepsTwo(m, t) ==
  LET hot   == FGt(t, F(300))
      c1    == IF hot THEN m.conteoTempAlta + 1 ELSE 0
      raise == c1 >= 3
  IN [Called(m, "outputPMV_Alto") EXCEPT
        !.tempA = t,
        !.conteoTempAlta = IF raise THEN 2 ELSE c1,
        !.input = IF raise THEN "TEMP_ALTA_3_INTENTOS" ELSE "Unknown",
        !.taskTime = Start(SetIntervalMillis(m.taskTime, 4000)),
        !.pins = @ \ {"LED_BLUE"},
        !.tasks = @ \cup {"TaskLedBlue"},
        !.fanPin = TRUE,
        !.hist.highReads = SubSeq(Append(@, [hot |-> hot, raised |-> raise]),
                                  IF Len(@) >= 3 THEN 2 ELSE 1, Len(@) + 1)]

\* void outputPMV_Alto(): t is what dht.readTemperature() returns
outputPMV_Alto(m, t) ==
  LET hot   == FGt(t, F(300))
      c1    == IF hot THEN m.conteoTempAlta + 1 ELSE 0
      raise == c1 >= 3
  IN [Called(m, "outputPMV_Alto") EXCEPT
        !.tempA = t,
        !.conteoTempAlta = IF raise THEN 0 ELSE c1,
        !.input = IF raise THEN "TEMP_ALTA_3_INTENTOS" ELSE "Unknown",
        !.taskTime = Start(SetIntervalMillis(m.taskTime, 4000)),
        !.pins = @ \ {"LED_BLUE"},
        !.tasks = @ \cup {"TaskLedBlue"},
        !.fanPin = TRUE,
        !.hist.highReads = SubSeq(Append(@, [hot |-> hot, raised |-> raise]),
                                  IF Len(@) >= 3 THEN 2 ELSE 1, Len(@) + 1)]

\* the exit actions without one of their statements: onLeavingBloqueo and the lambda of
\* ALARMA without the digitalWrite, onLeavingPMV_Bajo without TaskLedGreen.Stop(),
\* onLeavingPMV_Alto without the digitalWrite of FAN_PIN
onLeavingBloqueo_LedLeft(m) ==
  [Called(m, "onLeavingBloqueo") EXCEPT !.tasks = @ \ {"TaskLedRed"}]

onLeavingAlarma_PinLeft(m) ==
  [Called(m, "onLeavingAlarma") EXCEPT !.tasks = @ \ {"TaskBuzzer"}]

onLeavingPMV_Bajo_NoStop(m) ==
  [Called(m, "onLeavingPMV_Bajo") EXCEPT
     !.tasks = @ \ {"TaskServo"}, !.pins = @ \ {"LED_GREEN"}]

onLeavingPMV_Alto_FanLeft(m) ==
  [Called(m, "onLeavingPMV_Alto") EXCEPT
     !.tasks = @ \ {"TaskLedBlue"}, !.pins = @ \ {"LED_BLUE"}]

\* void onLeavingBloqueo()
onLeavingBloqueo(m) ==
  [Called(m, "onLeavingBloqueo") EXCEPT !.tasks = @ \ {"TaskLedRed"}, !.pins = @ \ {"LED_RED"}]

\* the lambda SetOnLeaving(ALARMA, ...)
onLeavingAlarma(m) ==
  [Called(m, "onLeavingAlarma") EXCEPT !.tasks = @ \ {"TaskBuzzer"}, !.pins = @ \ {"BUZZER_PIN"}]

\* void onLeavingPMV_Bajo()
onLeavingPMV_Bajo(m) ==
  [Called(m, "onLeavingPMV_Bajo") EXCEPT
     !.tasks = @ \ {"TaskLedGreen", "TaskServo"}, !.pins = @ \ {"LED_GREEN"}]

\* void onLeavingPMV_Alto()
onLeavingPMV_Alto(m) ==
  [Called(m, "onLeavingPMV_Alto") EXCEPT
     !.tasks = @ \ {"TaskLedBlue"}, !.pins = @ \ {"LED_BLUE"}, !.fanPin = FALSE]

\* toggleRed(), toggleGreen(), toggleBlue(), toggleBuzzer() when the pin is due to
\* change: the pin is inverted.  (ledStateRed/Green/Blue and buzzerState hold the pin's
\* level from the entry action that starts the task until the exit action that stops it.)
toggleRed(m) ==
  [m EXCEPT !.pins = IF "LED_RED" \in @ THEN @ \ {"LED_RED"} ELSE @ \cup {"LED_RED"}]
toggleGreen(m) ==
  [m EXCEPT !.pins = IF "LED_GREEN" \in @ THEN @ \ {"LED_GREEN"} ELSE @ \cup {"LED_GREEN"}]
toggleBlue(m) ==
  [m EXCEPT !.pins = IF "LED_BLUE" \in @ THEN @ \ {"LED_BLUE"} ELSE @ \cup {"LED_BLUE"}]
toggleBuzzer(m) ==
  [m EXCEPT !.pins = IF "BUZZER_PIN" \in @ THEN @ \ {"BUZZER_PIN"} ELSE @ \cup {"BUZZER_PIN"}]

\* the tasks that drive a pin
Blinkers == {"TaskLedRed", "TaskLedGreen", "TaskLedBlue", "TaskBuzzer"}

\* TaskLedRed.Update(); TaskLedGreen.Update(); TaskLedBlue.Update(); TaskBuzzer.Update();
\* due are the tasks whose interval has elapsed and whose callback changes its pin; a
\* task that is not active does nothing
TasksUpdate(m, due) ==
  LET r == IF "TaskLedRed" \in due \cap m.tasks THEN toggleRed(m) ELSE m
      g == IF "TaskLedGreen" \in due \cap m.tasks THEN toggleGreen(r) ELSE r
      b == IF "TaskLedBlue" \in due \cap m.tasks THEN toggleBlue(g) ELSE g
  IN IF "TaskBuzzer" \in due \cap m.tasks THEN toggleBuzzer(b) ELSE b

\* the callbacks setupStateMachine registers; env holds what the entry action reads:
\* env.pw and env.idle (keypad), env.sample (sensors), env.temp (DHT temperature)
OnEntering(m, s, env) ==
  CASE s = "INICIO"   -> outputInicio(m, env.pw, env.idle)
    [] s = "BLOQUEO"  -> outputBloqueo(m)
    [] s = "CONFIG"   -> outputConfig(m)
    [] s = "MONITOR"  -> outputMonitor(m, env.sample)
    [] s = "PMV_BAJO" -> outputPMV_Bajo(m)
    [] s = "PMV_ALTO" -> outputPMV_Alto(m, env.temp)
    [] s = "ALARMA"   -> outputAlarma(m)

OnLeaving(m, s) ==
  CASE s = "BLOQUEO"  -> onLeavingBloqueo(m)
    [] s = "ALARMA"   -> onLeavingAlarma(m)
    [] s = "PMV_BAJO" -> onLeavingPMV_Bajo(m)
    [] s = "PMV_ALTO" -> onLeavingPMV_Alto(m)
    [] OTHER          -> m

----------------------------------------------------------------------------
(* StateMachine (StateMachineLib) *)

\* StateMachine::SetState(state, launchLeaving, launchEntering)
SetState(m, s, launchLeaving, launchEntering, env) ==
  LET m1 == IF launchLeaving THEN OnLeaving(m, m.state) ELSE m
      m2 == IF launchEntering THEN OnEntering(m1, s, env) ELSE m1
  IN [m2 EXCEPT !.state = s]

\* the rules whose from-state is st and whose lambda returns true for input in
Enabled(st, in) ==
  {i \in 1..Len(rules) : rules[i][1] = st /\ rules[i][3] = in}

\* StateMachine::Update(): the first enabled rule of the current state, if any, is
\* taken; one call takes at most one rule
Update(m, env) ==
  LET en == Enabled(m.state, m.input)
      m0 == [m EXCEPT !.hist.evalInput = m.input]
  IN IF en = {} THEN m0
     ELSE LET i == CHOOSE j \in en : \A k \in en : j <= k
          IN SetState(m0, rules[i][2], TRUE, TRUE, env)

----------------------------------------------------------------------------
(* RFID tag registry in EEPROM: MAX_RECORDS records [len][UID][name].  A     *)
(* record is [len, uid, name]: len is the first byte (255 = 0xFF: free),     *)
(* uid the len bytes written after it, name the NAME_MAX_LENGTH name bytes.  *)

MAX_UID_LENGTH == 10
NAME_MAX_LENGTH == 16
RECORD_SIZE == 1 + MAX_UID_LENGTH + NAME_MAX_LENGTH
MAX_RECORDS == 10

FreeRecord == [len |-> 255, uid |-> <<>>, name |-> <<>>]

\* findUIDInEEPROM comparing the first record only
findUIDFrom_FirstOnly(ee, uid, uidLength, recordIndex) ==
  IF recordIndex = 0 /\ ee[0].len = uidLength /\ \A i \in 1..uidLength : ee[0].uid[i] = uid[i]
    THEN 0
    ELSE -1

\* the scan of findUIDInEEPROM from recordIndex on: the address of the first record
\* whose length byte and UID bytes match, -1 when there is none
RECURSIVE findUIDFrom(_, _, _, _)
findUIDFrom(ee, uid, uidLength, recordIndex) ==
  IF recordIndex >= MAX_RECORDS THEN -1
  ELSE LET r == ee[recordIndex]
       IN IF r.len = 255 \/ r.len # uidLength
            THEN findUIDFrom(ee, uid, uidLength, recordIndex + 1)
          ELSE IF \A i \in 1..uidLength : r.uid[i] = uid[i]
            THEN recordIndex * RECORD_SIZE
          ELSE findUIDFrom(ee, uid, uidLength, recordIndex + 1)

findUIDInEEPROM(ee, uid, uidLength) == findUIDFrom(ee, uid, uidLength, 0)

\* the name bytes written without the '\0' fill: the bytes after the name stay 0xFF
NameField_NoTerminator(name) ==
  [i \in 1..NAME_MAX_LENGTH |-> IF i <= Len(name) THEN name[i] ELSE 255]

\* the name bytes saveUIDAndName writes: name[i] while i < strlen(name), then '\0'
NameField(name) ==
  [i \in 1..NAME_MAX_LENGTH |-> IF i <= Len(name) THEN name[i] ELSE 0]

\* saveUIDAndName writing over the last record when none is free
RECURSIVE saveFrom_OverwriteLast(_, _, _, _, _)
saveFrom_OverwriteLast(ee, uid, uidLength, name, recordIndex) ==
  IF recordIndex >= MAX_RECORDS \/ ee[recordIndex].len = 255
    THEN [ee EXCEPT ![IF recordIndex >= MAX_RECORDS THEN MAX_RECORDS - 1 ELSE recordIndex] =
            [len |-> uidLength, uid |-> SubSeq(uid, 1, uidLength), name |-> NameField(name)]]
  ELSE saveFrom_OverwriteLast(ee, uid, uidLength, name, recordIndex + 1)

\* the scan of saveUIDAndName from recordIndex on: the first free record is written,
\* nothing is written when there is none
RECURSIVE saveFrom(_, _, _, _, _)
saveFrom(ee, uid, uidLength, name, recordIndex) ==
  IF recordIndex >= MAX_RECORDS THEN ee
  ELSE IF ee[recordIndex].len = 255
    THEN [ee EXCEPT ![recordIndex] =
            [len |-> uidLength, uid |-> SubSeq(uid, 1, uidLength), name |-> NameField(name)]]
  ELSE saveFrom(ee, uid, uidLength, name, recordIndex + 1)

saveUIDAndName(ee, uid, uidLength, name) == saveFrom(ee, uid, uidLength, name, 0)

\* readNameFromEEPROM(recordAddress, buffer, maxLen): the characters copied to buffer
\* before the '\0' (all maxLen of them when the field holds none)
readNameFromEEPROM(ee, recordAddress, maxLen) ==
  LET field == ee[recordAddress \div RECORD_SIZE].name
      ends == {i \in 1..maxLen : i <= Len(field) /\ field[i] = 0}
      n == IF ends = {} THEN (IF Len(field) < maxLen THEN Len(field) ELSE maxLen)
           ELSE (CHOOSE i \in ends : \A j \in ends : i <= j) - 1
  IN SubSeq(field, 1, n)

\* String::toCharArray(buf, bufsize): at most bufsize - 1 characters are copied
toCharArray(str, bufsize) ==
  SubSeq(str, 1, IF Len(str) < bufsize - 1 THEN Len(str) ELSE bufsize - 1)

\* handleConfigRFID marking the card as processed when the registration is cancelled
handleConfigRFID_CancelMarks(m, rf) ==
  IF m.state # "CONFIG" \/ m.tarjetaProcesada \/ ~rf.present THEN m
  ELSE IF findUIDInEEPROM(m.eeprom, rf.uid, rf.size) # -1
    THEN [m EXCEPT !.tarjetaProcesada = TRUE]
  ELSE IF rf.timeout \/ Len(rf.text) = 0
    THEN [m EXCEPT !.taskTime = Start(SetIntervalMillis(m.taskTime, 1500)),
                   !.tarjetaProcesada = TRUE,
                   !.hist.waited = @ \/ rf.timeout]
  ELSE [m EXCEPT
          !.eeprom = saveUIDAndName(m.eeprom, rf.uid, rf.size,
                                    toCharArray(rf.text, NAME_MAX_LENGTH)),
          !.taskTime = Start(SetIntervalMillis(m.taskTime, 2000)),
          !.tarjetaProcesada = TRUE]

\* void handleConfigRFID(): rf.present is PICC_IsNewCardPresent() && PICC_ReadCardSerial(),
\* rf.uid and rf.size the card's UID, rf.timeout whether the while (!Serial.available())
\* loop spun for the whole 15 s without a name, rf.text the trimmed line read otherwise
handleConfigRFID(m, rf) ==
  IF m.state # "CONFIG" \/ m.tarjetaProcesada \/ ~rf.present THEN m
  ELSE IF findUIDInEEPROM(m.eeprom, rf.uid, rf.size) # -1
    THEN [m EXCEPT !.tarjetaProcesada = TRUE]
  ELSE IF rf.timeout \/ Len(rf.text) = 0
    THEN [m EXCEPT !.taskTime = Start(SetIntervalMillis(m.taskTime, 1500)),
                   !.hist.waited = @ \/ rf.timeout]
  ELSE [m EXCEPT
          !.eeprom = saveUIDAndName(m.eeprom, rf.uid, rf.size,
                                    toCharArray(rf.text, NAME_MAX_LENGTH)),
          !.taskTime = Start(SetIntervalMillis(m.taskTime, 2000)),
          !.tarjetaProcesada = TRUE]

----------------------------------------------------------------------------
(* What the peripherals may deliver in one iteration *)

\* Serial.read() in readInputSerial: "" when nothing is available, "x" any unmapped character
SerialChars == {"", "0", "1", "2", "3", "4", "5", "6", "7", "x"}

\* keypad.getKey() in checkBloqueo: "" is NO_KEY
Keys == {"", "*", "#"}

\* six keys typed in readPassword: the secret, and the secret with a wrong first or a
\* wrong last key
Passwords == {clave} \cup {[clave EXCEPT ![i] = "#"] : i \in {1, 6}}

\* values of the Fanger expression before the clamp, in hundredths
RawPMVs == {-350, -101, -100, 0, 100, 101, 350}

\* what leerSensores reads when checkPMV runs: valid samples and the DHT's failed reads
Samples ==
  {[ta |-> F(300), rh |-> F(50), raw |-> r] : r \in RawPMVs}
  \cup {[ta |-> NaN, rh |-> F(50), raw |-> 0], [ta |-> F(300), rh |-> NaN, raw |-> 0]}

\* what leerSensores reads in outputMonitor
EntrySamples == {[ta |-> F(300), rh |-> F(50), raw |-> 0]}

\* dht.readTemperature() in outputPMV_Alto, in tenths of a degree
TempReads == {NaN, F(300), F(301)}

\* mfrc522.uid of the card presented
Cards == {[size |-> 4, uid |-> <<1, 2, 3, 4>>]}

\* the name line of handleConfigRFID: none within 15 s, an empty line, "ana"
NameInputs == {[timeout |-> TRUE, text |-> <<>>], [timeout |-> FALSE, text |-> <<>>],
               [timeout |-> FALSE, text |-> <<97, 110, 97>>]}

NoCard == [present |-> FALSE, size |-> 0, uid |-> <<>>, timeout |-> FALSE, text |-> <<>>]

NoSample == [ta |-> F(0), rh |-> F(0), raw |-> 0]

\* hist.chk when checkPMV did not read the sensors: ran says that it did, ta and rh are
\* the sample read, computed says that calcularPMV_Fanger was called, pmv is its result
\* and event the input derived from it
NoChk == [ran |-> FALSE, ta |-> F(0), rh |-> F(0), computed |-> FALSE, pmv |-> F(0),
          event |-> "Unknown"]

----------------------------------------------------------------------------
(* loop() *)

\* the record of the program's variables; writes counts, within the iteration in
\* progress, the assignments to input made before the evaluation
Cur ==
  [state |-> state, input |-> input, conteoTempAlta |-> conteoTempAlta,
   tiempoMonitorVencido |-> tiempoMonitorVencido, tarjetaProcesada |-> tarjetaProcesada,
   clave_user |-> clave_user, tempA |-> tempA, humedad |-> humedad, taskTime |-> taskTime,
   tasks |-> tasks, fanPin |-> fanPin, pins |-> pins, eeprom |-> eeprom, hist |-> hist,
   writes |-> 0]

\* hist before anything was observed: calls are the entry and exit actions run,
\* evalInput the input stateMachine.Update() evaluated, fired whether TaskTime ran its
\* callback, chk the PMV check, unmapped whether the intake read a character outside
\* '0'..'7', motion whether checkMovimiento read a movement, waited whether the iteration spun in
\* a loop until an external input arrived, atInicio what outputInicio found of the red
\* indicator when it began, highReads the last entries into PMV_ALTO
NoHist(reads) ==
  [calls |-> <<>>, evalInput |-> "Unknown", fired |-> FALSE, chk |-> NoChk,
   unmapped |-> FALSE, motion |-> FALSE, waited |-> FALSE,
   atInicio |-> <<>>, highReads |-> reads]

\* a new iteration: the observations of the previous one are dropped
Begin(m) == [m EXCEPT !.hist = NoHist(@.highReads)]

\* the serial intake without its test input == Unknown: a command read replaces the
\* pending input
loopRead_Unguarded(m, ch) ==
  IF readInputSerial(ch) = "Unknown" THEN [m EXCEPT !.hist.unmapped = ch # ""]
  ELSE Raise(m, readInputSerial(ch))

\* if (input == Unknown) input = readInputSerial();
loopRead(m, ch) ==
  IF m.input # "Unknown" THEN m
  ELSE IF readInputSerial(ch) = "Unknown" THEN [m EXCEPT !.hist.unmapped = ch # ""]
  ELSE Raise(m, readInputSerial(ch))

\* checkBloqueo(); checkPMV(); checkMovimiento();
loopChecks(m, key, s, pirLow) ==
  checkMovimiento(checkPMV(checkBloqueo(m, key), s), pirLow)

\* loop() evaluating the state machine before TaskTime.Update() and the checks
loopBody_UpdateFirst(m, in) ==
  LET m1 == loopRead(Begin(m), in.ch)
      m2 == Update(m1, in.env)
      m3 == TasksUpdate(TaskTimeUpdate(m2, in.dt), in.due)
      m6 == loopChecks(m3, in.key, in.sample, in.pirLow)
  IN handleConfigRFID(m6, in.rf)

\* loop() calling stateMachine.Update() twice in one iteration
loopBody_UpdateTwice(m, in) ==
  LET m1 == loopRead(Begin(m), in.ch)
      m2 == TasksUpdate(TaskTimeUpdate(m1, in.dt), in.due)
      m5 == loopChecks(m2, in.key, in.sample, in.pirLow)
      m6 == Update(Update(m5, in.env), in.env)
  IN handleConfigRFID(m6, in.rf)

\* one iteration of loop() on the inputs in: serial intake, TaskTime.Update(), the
\* Update() of the blink tasks, the three checks, stateMachine.Update(), handleConfigRFID().  (The closing
\* Serial.readString() only drains the serial buffer.)
loopBody(m, in) ==
  LET m1 == loopRead(Begin(m), in.ch)
      m2 == TasksUpdate(TaskTimeUpdate(m1, in.dt), in.due)
      m5 == loopChecks(m2, in.key, in.sample, in.pirLow)
      m6 == Update(m5, in.env)
  IN handleConfigRFID(m6, in.rf)

\* the target of the rule Update would take in m, "" when none is enabled
Target(m) ==
  LET en == Enabled(m.state, m.input)
  IN IF en = {} THEN "" ELSE rules[CHOOSE j \in en : \A k \in en : j <= k][2]

\* the inputs that matter in m: a device is read only where the code reads it
ChSet(m) == IF m.input = "Unknown" THEN SerialChars ELSE {""}
KeySet(m) == IF m.state = "BLOQUEO" THEN Keys ELSE {""}
PirSet(m) == IF m.state = "ALARMA" THEN BOOLEAN ELSE {FALSE}
SampleSet(m) == IF m.state = "MONITOR" /\ m.tiempoMonitorVencido THEN Samples ELSE {NoSample}
EnvSet(m) ==
  LET to == Target(m)
  IN {[pw |-> pw, idle |-> w, sample |-> s, temp |-> t] :
        pw \in (IF to = "INICIO" THEN Passwords ELSE {m.clave_user}),
        w \in (IF to = "INICIO" THEN BOOLEAN ELSE {FALSE}),
        s \in (IF to = "MONITOR" THEN EntrySamples ELSE {NoSample}),
        t \in (IF to = "PMV_ALTO" THEN TempReads ELSE {F(0)})}
RfidSet(m) ==
  IF m.state = "CONFIG" /\ ~m.tarjetaProcesada
    THEN {NoCard} \cup
         {[present |-> TRUE, size |-> c.size, uid |-> c.uid, timeout |-> n.timeout,
           text |-> n.text] : c \in Cards, n \in NameInputs}
    ELSE {NoCard}

\* the blink tasks that may be due after dt ms: none when no time has passed
DueSet(m, dt) == IF dt = 0 THEN {{}} ELSE SUBSET (m.tasks \cap Blinkers)

LoopInputs(m) ==
  UNION {
    LET m2 == TasksUpdate(TaskTimeUpdate(loopRead(Begin(m), ch), dt), due)
    IN UNION {
         LET m5 == loopChecks(m2, key, s, pirLow)
         IN UNION {
              {[ch |-> ch, dt |-> dt, due |-> due, key |-> key, sample |-> s,
                pirLow |-> pirLow, env |-> env, rf |-> rf] : rf \in RfidSet(Update(m5, env))}
              : env \in EnvSet(m5)}
         : <<key, s, pirLow>> \in KeySet(m2) \X SampleSet(m2) \X PirSet(m2)}
    : <<ch, dt, due>> \in {t \in ChSet(m) \X DtSet \X SUBSET Blinkers : t[3] \in DueSet(m, t[2])}}

Assign(m) ==
  /\ state' = m.state
  /\ input' = m.input
  /\ conteoTempAlta' = m.conteoTempAlta
  /\ tiempoMonitorVencido' = m.tiempoMonitorVencido
  /\ tarjetaProcesada' = m.tarjetaProcesada
  /\ clave_user' = m.clave_user
  /\ tempA' = m.tempA
  /\ humedad' = m.humedad
  /\ taskTime' = m.taskTime
  /\ tasks' = m.tasks
  /\ fanPin' = m.fanPin
  /\ pins' = m.pins
  /\ eeprom' = m.eeprom
  /\ hist' = m.hist
  /\ rules' = rules
  /\ servo' = servo

\* loop() runs calcularPMV_Fanger inside checkPMV, as one value: no call is followed
\* statement by statement
NoCall == [pc |-> "idle"]

loop == (\E in \in LoopInputs(Cur) : Assign(loopBody(Cur, in))) /\ UNCHANGED solver

----------------------------------------------------------------------------
(* setup(): the globals' initializers, then SetState(INICIO, false, true) *)

InitialEEPROMs == {[i \in 0..(MAX_RECORDS - 1) |-> FreeRecord]}

Boot(ee) ==
  [state |-> "INICIO", input |-> "Unknown", conteoTempAlta |-> 0,
   tiempoMonitorVencido |-> FALSE, tarjetaProcesada |-> FALSE,
   clave_user |-> <<"", "", "", "", "", "">>, tempA |-> F(0), humedad |-> F(0),
   taskTime |-> [active |-> FALSE, interval |-> 5000, elapsed |-> 0],
   tasks |-> {}, fanPin |-> FALSE, pins |-> {}, eeprom |-> ee, writes |-> 0,
   hist |-> NoHist(<<>>)]

setup(ee, pw) ==
  SetState(Boot(ee), "INICIO", FALSE, TRUE,
           [pw |-> pw.keys, idle |-> pw.idle, sample |-> NoSample, temp |-> F(0)])

\* the globals after setup(), the EEPROM found at power-up drawn from ees and the six
\* keys of the first readPassword from pws; setupStateMachine() has added the rules
PowerUp(ees, pws) ==
  \E ee \in ees, pw \in pws :
    LET m == setup(ee, pw)
    IN /\ rules = Transitions
       /\ servo = [servoPos |-> 20, servoUp |-> TRUE, active |-> FALSE, written |-> <<>>]
       /\ state = m.state
       /\ input = m.input
       /\ conteoTempAlta = m.conteoTempAlta
       /\ tiempoMonitorVencido = m.tiempoMonitorVencido
       /\ tarjetaProcesada = m.tarjetaProcesada
       /\ clave_user = m.clave_user
       /\ tempA = m.tempA
       /\ humedad = m.humedad
       /\ taskTime = m.taskTime
       /\ tasks = m.tasks
       /\ fanPin = m.fanPin
       /\ pins = m.pins
       /\ eeprom = m.eeprom
       /\ hist = m.hist

Init == PowerUp(InitialEEPROMs, [keys : Passwords, idle : BOOLEAN]) /\ solver = NoCall

Next == loop

Spec == Init /\ [][Next]_vars

----------------------------------------------------------------------------
(* The transition table as the design documents state it, and the callbacks  *)
(* it names for each state                                                   *)

DocTable ==
  {<<"INICIO", "CLAVE_CORRECTA", "CONFIG">>,
   <<"INICIO", "SISTEMA_BLOQUEADO", "BLOQUEO">>,
   <<"BLOQUEO", "TECLA_ASTERISCO", "INICIO">>,
   <<"CONFIG", "TIEMPO_EXPIRADO", "MONITOR">>,
   <<"MONITOR", "PMV_MENOR_QUE_MENOS1", "PMV_BAJO">>,
   <<"MONITOR", "PMV_MAYOR_QUE_1", "PMV_ALTO">>,
   <<"MONITOR", "TIEMPO_EXPIRADO", "CONFIG">>,
   <<"PMV_BAJO", "TIEMPO_EXPIRADO", "MONITOR">>,
   <<"PMV_ALTO", "TIEMPO_EXPIRADO", "MONITOR">>,
   <<"PMV_ALTO", "TEMP_ALTA_3_INTENTOS", "ALARMA">>,
   <<"ALARMA", "SENSOR_INFRARROJO", "INICIO">>}

InDocTable(s, e) == \E r \in DocTable : r[1] = s /\ r[2] = e
DocTarget(s, e) == (CHOOSE r \in DocTable : r[1] = s /\ r[2] = e)[3]

DocEntry ==
  [s \in States |->
     CASE s = "INICIO" -> "outputInicio" [] s = "CONFIG" -> "outputConfig"
       [] s = "ALARMA" -> "outputAlarma" [] s = "MONITOR" -> "outputMonitor"
       [] s = "BLOQUEO" -> "outputBloqueo" [] s = "PMV_ALTO" -> "outputPMV_Alto"
       [] s = "PMV_BAJO" -> "outputPMV_Bajo"]

DocExit ==
  [s \in States |->
     CASE s = "BLOQUEO" -> <<"onLeavingBloqueo">> [] s = "ALARMA" -> <<"onLeavingAlarma">>
       [] s = "PMV_BAJO" -> <<"onLeavingPMV_Bajo">> [] s = "PMV_ALTO" -> <<"onLeavingPMV_Alto">>
       [] OTHER -> <<>>]

EntryNames == {DocEntry[s] : s \in States}

\* the number of entry actions the last iteration ran
EntriesRun(h) == Cardinality({i \in DOMAIN h.calls : h.calls[i] \in EntryNames})

----------------------------------------------------------------------------
(* C1: in every iteration the state after the evaluation is the one the      *)
(* 11-row table gives for the state before it and the input evaluated (the   *)
(* same state when the table has no row), and on a row the callbacks run are *)
(* the exit action of the old state, if it has one, then the entry action of *)
(* the new state.                                                            *)
C1_TableStep ==
  [][LET e == hist'.evalInput
     IN IF InDocTable(state, e)
          THEN /\ state' = DocTarget(state, e)
               /\ hist'.calls = DocExit[state] \o <<DocEntry[state']>>
          ELSE state' = state]_vars

\* a transition with an exit action and an entry action has been taken
C1_Witness ==
  state = "ALARMA" /\ hist.calls = <<"onLeavingPMV_Alto", "outputAlarma">>

(* C2: an iteration runs at most one entry action and ends in the state that *)
(* entry action belongs to; the input raised by the entry action of INICIO   *)
(* (CLAVE_CORRECTA or SISTEMA_BLOQUEADO) or of PMV_ALTO                      *)
(* (TEMP_ALTA_3_INTENTOS) is still pending, with the state not yet left,     *)
(* when the iteration ends.                                                  *)
C2_OneTransitionPerCycle ==
  [][/\ EntriesRun(hist') <= 1
     /\ hist'.calls # <<>> =>
          /\ hist'.calls[Len(hist'.calls)] = DocEntry[state']
          /\ InDocTable(state, hist'.evalInput)
          /\ state' = DocTarget(state, hist'.evalInput)
     /\ "outputInicio" \in {hist'.calls[i] : i \in DOMAIN hist'.calls} =>
          state' = "INICIO" /\ input' \in {"CLAVE_CORRECTA", "SISTEMA_BLOQUEADO"}
     /\ ("outputPMV_Alto" \in {hist'.calls[i] : i \in DOMAIN hist'.calls}
           /\ hist'.highReads[Len(hist'.highReads)].raised) =>
          state' = "PMV_ALTO" /\ input' = "TEMP_ALTA_3_INTENTOS"]_vars

\* INICIO was entered from ALARMA and the accepted credential is pending, not acted on
C2_Witness ==
  /\ state = "INICIO"
  /\ hist.calls = <<"onLeavingAlarma", "outputInicio">>
  /\ input = "CLAVE_CORRECTA"

(* C3: after every iteration in which no rule matched, the pending input is  *)
(* Unknown again.                                                            *)
C3_EventConsumed ==
  [][hist'.calls = <<>> => input' = "Unknown"]_vars

(* C4: an evaluation of a (state, input) pair outside the 11-row table,      *)
(* Unknown included, leaves the state as it is and runs no entry action and  *)
(* no exit action.                                                           *)
C4_DroppedEvent ==
  [][~InDocTable(state, hist'.evalInput) => state' = state /\ hist'.calls = <<>>]_vars

\* an input that CONFIG has no rule for was evaluated and dropped
C4_Witness ==
  state = "CONFIG" /\ hist.evalInput = "PMV_MAYOR_QUE_1" /\ hist.calls = <<>>

----------------------------------------------------------------------------
\* the entries into PMV_ALTO recorded so far, at most the last three
Reads == hist.highReads
JustEnteredAlto == hist.calls # <<>> /\ hist.calls[Len(hist.calls)] = "outputPMV_Alto"
ThreeHot == Len(Reads) = 3 /\ \A i \in 1..3 : Reads[i].hot

C6_ClassifySameCycle ==
  [][(state = "MONITOR" /\ hist'.fired) =>
       /\ hist'.chk.ran
       /\ LET p == hist'.chk.pmv
          IN ~isnan(p) =>
               state' = (IF p.v < -100 THEN "PMV_BAJO"
                         ELSE IF p.v > 100 THEN "PMV_ALTO" ELSE "CONFIG")]_vars

\* a sample with pmv exactly +1 sent the machine from MONITOR to CONFIG
C6_Witness ==
  /\ state = "CONFIG" /\ hist.fired /\ hist.chk.ran
  /\ hist.chk.pmv = F(100) /\ hist.calls = <<"outputConfig">>

C8_ResetOnCool ==
  JustEnteredAlto =>
    /\ ~Reads[Len(Reads)].hot => (conteoTempAlta = 0 /\ input = "Unknown")
    /\ input = "TEMP_ALTA_3_INTENTOS" => ThreeHot
    /\ Reads[Len(Reads)].raised <=> input = "TEMP_ALTA_3_INTENTOS"

\* two hot entries were followed by one at 30 or below, which cleared the counter
C8_Witness ==
  /\ JustEnteredAlto /\ Len(Reads) = 3
  /\ Reads[1].hot /\ Reads[2].hot /\ ~Reads[3].hot
  /\ conteoTempAlta = 0 /\ tempA = F(300)

(* C9: a monitoring check whose sample has a NaN temperature or humidity     *)
(* does not evaluate calcularPMV_Fanger and derives no input from it.        *)
C9_InvalidSampleSkipped ==
  (hist.chk.ran /\ (isnan(hist.chk.ta) \/ isnan(hist.chk.rh))) =>
     (~hist.chk.computed /\ hist.chk.event = "Unknown")

(* C10: a TaskTime expiry in an iteration takes effect in that iteration: if *)
(* the iteration starts in CONFIG, PMV_BAJO or PMV_ALTO the input evaluated  *)
(* is TIEMPO_EXPIRADO and the iteration ends in MONITOR; if it starts in     *)
(* MONITOR the input evaluated is the one checkPMV derived in the iteration  *)
(* and the iteration ends in the state that input leads to.                  *)
C10_TimeoutSameTick ==
  [][hist'.fired =>
       /\ state \in {"CONFIG", "PMV_BAJO", "PMV_ALTO"} =>
            (hist'.evalInput = "TIEMPO_EXPIRADO" /\ state' = "MONITOR")
       /\ state = "MONITOR" =>
            /\ hist'.chk.ran
            /\ hist'.evalInput = hist'.chk.event
            /\ state' = DocTarget("MONITOR", hist'.chk.event)]_vars

\* the timeout of PMV_BAJO expired and the same iteration entered MONITOR
C10_Witness ==
  /\ hist.fired /\ state = "MONITOR"
  /\ hist.calls = <<"onLeavingPMV_Bajo", "outputMonitor">>
  /\ hist.evalInput = "TIEMPO_EXPIRADO"

----------------------------------------------------------------------------
\* a bound: the iterations waited for a timeout when nothing else can move the machine
MaxWait == 7

\* some iteration from m takes a transition
Moves(m) == \E in \in LoopInputs(m) : loopBody(m, in).hist.calls # <<>>

\* the iteration in which the longest step of time passes and no device delivers anything
Quiet(m) ==
  CHOOSE in \in LoopInputs(m) :
    /\ in.ch = "" /\ in.dt = DtStep * MaxDtSteps /\ in.due = {}
    /\ in.key = "" /\ ~in.pirLow /\ ~in.rf.present

\* a transition can be taken from m, at once or after at most k quiet iterations
RECURSIVE CanMove(_, _)
CanMove(m, k) == Moves(m) \/ (k > 0 /\ CanMove(loopBody(m, Quiet(m)), k - 1))

\* what the serial protocol maps each character to
DocSerial ==
  [c \in {"0", "1", "2", "3", "4", "5", "6", "7"} |->
     CASE c = "0" -> "SISTEMA_BLOQUEADO" [] c = "1" -> "TECLA_ASTERISCO"
       [] c = "2" -> "CLAVE_CORRECTA" [] c = "3" -> "TIEMPO_EXPIRADO"
       [] c = "4" -> "PMV_MENOR_QUE_MENOS1" [] c = "5" -> "PMV_MAYOR_QUE_1"
       [] c = "6" -> "TEMP_ALTA_3_INTENTOS" [] c = "7" -> "SENSOR_INFRARROJO"]

\* how many times the exit action name ran in the last iteration
Runs(h, name) == Cardinality({i \in DOMAIN h.calls : h.calls[i] = name})

(* C11: in no iteration is input written more than once by the serial intake, *)
(* runTime, checkBloqueo, checkPMV and checkMovimiento together.              *)
C11_SingleProducer ==
  \A in \in LoopInputs(Cur) : loopBody(Cur, in).writes <= 1

(* C12: after every iteration that takes a transition TaskTime is stopped or  *)
(* freshly started by the entry action, and TaskTime never runs its callback  *)
(* in ALARMA or BLOQUEO, where only a timer armed by an earlier state could   *)
(* expire.                                                                    *)
C12_TimerReprogrammed ==
  [][/\ hist'.calls # <<>> => (~taskTime'.active \/ taskTime'.elapsed = 0)
     /\ hist'.fired => state \notin {"ALARMA", "BLOQUEO"}]_vars

(* C13: after setup and after every iteration FAN_PIN is HIGH if and only if  *)
(* the state is PMV_ALTO.                                                     *)
C13_FanOnlyInAlto == fanPin <=> state = "PMV_ALTO"

\* PMV_ALTO was left for ALARMA and the fan is off
C13_Witness ==
  state = "ALARMA" /\ hist.calls = <<"onLeavingPMV_Alto", "outputAlarma">> /\ ~fanPin

(* C14: after setup and after every iteration TaskBuzzer is active if and     *)
(* only if the state is ALARMA, and BUZZER_PIN is LOW in every other state.   *)
C14_BuzzerOnlyInAlarm ==
  /\ "TaskBuzzer" \in tasks <=> state = "ALARMA"
  /\ state # "ALARMA" => "BUZZER_PIN" \notin pins

\* the buzzer is sounding in ALARMA
C14_Witness ==
  state = "ALARMA" /\ "TaskBuzzer" \in tasks /\ "BUZZER_PIN" \in pins

C16_LockedExitOnce ==
  [][IF state = "BLOQUEO" /\ state' # "BLOQUEO"
       THEN /\ Runs(hist', "onLeavingBloqueo") = 1
            /\ state' = "INICIO"
            /\ hist'.atInicio = <<[redOn |-> FALSE, redTask |-> FALSE]>>
       ELSE Runs(hist', "onLeavingBloqueo") = 0]_vars

\* the '*' key has taken the machine from BLOQUEO back to INICIO
C16_Witness ==
  /\ state = "INICIO" /\ hist.calls = <<"onLeavingBloqueo", "outputInicio">>
  /\ hist.evalInput = "TECLA_ASTERISCO"
  /\ hist.atInicio = <<[redOn |-> FALSE, redTask |-> FALSE]>>

(* C17: from every reachable configuration a transition can still be taken,   *)
(* at once or after at most MaxWait iterations in which only time passes.     *)
C17_NoTerminalState == CanMove(Cur, MaxWait)

(* C18: no iteration spins in a loop until an external input arrives.         *)
C18_NonBlocking == ~hist.waited

(* C19: an iteration that starts in ALARMA ends in ALARMA or INICIO; when     *)
(* checkMovimiento reads a movement in it, whatever input was pending, the    *)
(* input evaluated is SENSOR_INFRARROJO, the iteration ends in INICIO and     *)
(* TaskBuzzer is stopped with BUZZER_PIN LOW.                                 *)
C19_MotionLeavesAlarm ==
  [][state = "ALARMA" =>
       /\ state' \in {"ALARMA", "INICIO"}
       /\ hist'.motion =>
            /\ hist'.evalInput = "SENSOR_INFRARROJO"
            /\ state' = "INICIO"
            /\ hist'.calls = <<"onLeavingAlarma", "outputInicio">>
            /\ "TaskBuzzer" \notin tasks' /\ "BUZZER_PIN" \notin pins']_vars

\* TaskTime expired in ALARMA and a movement read in the same iteration overrode it
C19_Witness ==
  state = "INICIO" /\ hist.motion /\ hist.fired /\ hist.evalInput = "SENSOR_INFRARROJO"

(* C20: when no input is pending, the intake turns each of '0'..'7' into the  *)
(* input the protocol maps it to, and an iteration that reads any other       *)
(* character ends exactly as the same iteration without a character does.    *)
C20_SerialIntake ==
  input = "Unknown" =>
    \A in \in LoopInputs(Cur) :
      /\ in.ch \in DOMAIN DocSerial =>
           loopRead(Begin(Cur), in.ch).input = DocSerial[in.ch]
      /\ (in.ch \notin DOMAIN DocSerial /\ in.ch # "") =>
           /\ loopRead(Begin(Cur), in.ch).input = "Unknown"
           /\ loopBody(Cur, in) =
                [loopBody(Cur, [in EXCEPT !.ch = ""]) EXCEPT !.hist.unmapped = TRUE]

\* an unmapped character was read in CONFIG and nothing is pending
C20_Witness ==
  state = "CONFIG" /\ hist.unmapped /\ input = "Unknown" /\ hist.calls = <<>>

----------------------------------------------------------------------------
(* C21: the value calcularPMV_Fanger returns to checkPMV is a number between  *)
(* -3 and +3 inclusive, whatever sample the sensors delivered.                *)
C21_ResultInRange ==
  hist.chk.computed =>
    (~isnan(hist.chk.pmv) /\ hist.chk.pmv.v >= -300 /\ hist.chk.pmv.v <= 300)

----------------------------------------------------------------------------
(* calcularPMV_Fanger followed statement by statement.  Clothing temperatures *)
(* are floats in units of tol (1e-4 degrees).  The right-hand side of the     *)
(* heat-balance assignment (line 1767) and the final PMV expression (line     *)
(* 1789) are not evaluated: a call carries balance, the value the former      *)
(* takes for each clothing temperature, and final, the value the latter      *)
(* takes (in hundredths), and the calls range over a family of both.          *)

tol == 1
max_iters == 100

\* |a - b| in floats
fabsDiff(a, b) ==
  IF isnan(a) \/ isnan(b) THEN NaN ELSE F(IF a.v >= b.v THEN a.v - b.v ELSE b.v - a.v)

\* clothing temperatures the iteration moves among
TclVals == {0, 1, 3}

\* the heat balances: every map of a clothing temperature to the next iterate
Balances == [TclVals -> {F(t) : t \in TclVals}]

\* the final expressions: a base value plus 1.00 per unit of clothing temperature
FinalMaps == {[t \in TclVals |-> r0 + 100 * t] : r0 \in {-350, 50}}

\* the calls followed: air temperature (the initial tcl), humidity, balance, final
Calls ==
  [ta : {F(t) : t \in TclVals} \cup {NaN}, rh : {F(50), NaN},
   balance : Balances, final : FinalMaps]

\* line 1767: NaN when the air temperature or the previous iterate is NaN
tclNext(c, tcl) == IF isnan(c.ta) \/ isnan(tcl) THEN NaN ELSE c.balance[tcl.v]

\* the while condition of line 1770 tested against max_iters inclusive
again_Inclusive(tcl, tcl_prev, iteracion) ==
  FGt(fabsDiff(tcl, tcl_prev), F(tol)) /\ iteracion <= max_iters

\* while (fabs(tcl - tcl_prev) > tol && iteracion < max_iters)
again(tcl, tcl_prev, iteracion) ==
  FGt(fabsDiff(tcl, tcl_prev), F(tol)) /\ iteracion < max_iters

\* lines 1736-1749: the locals after their initializers
calcularPMV_Fanger_enter(c) ==
  [pc |-> "loop", call |-> c, tcl |-> c.ta, tcl_prev |-> c.ta, iteracion |-> 0,
   pmv |-> F(0)]

\* one pass of the do-while body (lines 1752-1770)
calcularPMV_Fanger_pass(sv) ==
  LET tcl == tclNext(sv.call, sv.tcl)
      n == sv.iteracion + 1
  IN [sv EXCEPT !.tcl_prev = sv.tcl, !.tcl = tcl, !.iteracion = n,
                !.pc = IF again(tcl, sv.tcl, n) THEN "loop" ELSE "final"]

\* lines 1773-1797 storing the clothing temperature in tempA
calcularPMV_Fanger_finish_StoresTcl(sv) ==
  [sv |-> [sv EXCEPT !.pc = "done", !.pmv = F(0)], tempA |-> sv.tcl]

\* lines 1773-1797: the final expression on the last iterate, clamped
calcularPMV_Fanger_finish(sv) ==
  [sv |-> [sv EXCEPT !.pc = "done",
                     !.pmv = IF isnan(sv.tcl) THEN NaN
                             ELSE calcularPMV_Fanger(sv.call.ta, sv.call.rh,
                                                     sv.call.final[sv.tcl.v])],
   tempA |-> tempA]

Globals_NoServo ==
  <<state, input, conteoTempAlta, tiempoMonitorVencido, tarjetaProcesada, clave_user,
    tempA, humedad, taskTime, tasks, fanPin, pins, eeprom, hist, rules>>

Globals == <<Globals_NoServo, servo>>

SolverInit ==
  /\ PowerUp(InitialEEPROMs, [keys : {clave}, idle : {FALSE}])
  /\ \E c \in Calls : solver = calcularPMV_Fanger_enter(c)

SolverPass ==
  /\ solver.pc = "loop"
  /\ solver' = calcularPMV_Fanger_pass(solver)
  /\ UNCHANGED Globals

SolverFinish ==
  /\ solver.pc = "final"
  /\ solver' = calcularPMV_Fanger_finish(solver).sv
  /\ tempA' = calcularPMV_Fanger_finish(solver).tempA
  /\ UNCHANGED <<state, input, conteoTempAlta, tiempoMonitorVencido, tarjetaProcesada,
                 clave_user, humedad, taskTime, tasks, fanPin, pins, eeprom, hist,
                 rules, servo>>

SolverNext == SolverPass \/ SolverFinish

SolverSpec == SolverInit /\ [][SolverNext]_vars

\* two successive iterates that differ by no more than tol
Close(a, b) == ~isnan(a) /\ ~isnan(b) /\ fabsDiff(a, b).v <= tol

RECURSIVE lastTcl(_, _, _)
lastTcl(c, tcl, n) ==
  LET t == tclNext(c, tcl)
  IN IF again(t, tcl, n + 1) THEN lastTcl(c, t, n + 1) ELSE t

\* the value calcularPMV_Fanger returns for the call c
Returned(c) ==
  LET t == lastTcl(c, c.ta, 0)
  IN IF isnan(t) THEN NaN ELSE calcularPMV_Fanger(c.ta, c.rh, c.final[t.v])

----------------------------------------------------------------------------
\* the rules of from-state s that the input e enables in the rule set r
Matching(r, s, e) == {i \in DOMAIN r : r[i][1] = s /\ r[i][3] = e}

(* C24: in every reachable state the rule set is the one setupStateMachine    *)
(* added, and for no from-state does a value of input enable two rules.      *)
C24_RulesExclusiveAndStatic ==
  /\ rules = Transitions
  /\ \A s \in States, e \in Inputs : Cardinality(Matching(rules, s, e)) <= 1

\* an iteration evaluated TIEMPO_EXPIRADO in MONITOR, which has three rules, and took
\* the only one that input enables
C24_Witness ==
  /\ state = "CONFIG" /\ hist.calls = <<"outputConfig">>
  /\ hist.evalInput = "TIEMPO_EXPIRADO"
  /\ Cardinality({i \in DOMAIN rules : rules[i][1] = "MONITOR"}) = 3
  /\ Matching(rules, "MONITOR", "TIEMPO_EXPIRADO") = {7}

----------------------------------------------------------------------------
(* The louvre servo on its own: servoPos, servoUp and TaskServo are touched    *)
(* only by the entry action of PMV_BAJO, by moverServo and by the exit action  *)
(* of PMV_BAJO, so the servo is followed through those three alone; loop()     *)
(* above keeps TaskServo in tasks and leaves the angle out.  written is the    *)
(* angle last given to servo.write (<<>> before the first write).             *)

\* outputPMV_Bajo, lines 959-966
outputPMV_Bajo_servo(sv) ==
  [servoPos |-> 0, servoUp |-> TRUE, active |-> TRUE, written |-> <<0>>]

\* void moverServo()
moverServo(sv) ==
  LET p == IF sv.servoUp THEN sv.servoPos + 1 ELSE sv.servoPos - 1
      q == IF sv.servoUp THEN (IF p >= 90 THEN 90 ELSE p) ELSE (IF p <= 20 THEN 20 ELSE p)
      up == IF sv.servoUp THEN ~(p >= 90) ELSE p <= 20
  IN [sv EXCEPT !.servoPos = q, !.servoUp = up, !.written = <<q>>]

\* onLeavingPMV_Bajo, line 1060
onLeavingPMV_Bajo_servo(sv) == [sv EXCEPT !.active = FALSE]

\* the machine enters PMV_BAJO, which it is not in
ServoEnter ==
  /\ ~servo.active
  /\ servo' = outputPMV_Bajo_servo(servo)
  /\ UNCHANGED <<Globals_NoServo, solver>>

\* TaskServo.Update() finds the 15 ms elapsed
ServoMove ==
  /\ servo.active
  /\ servo' = moverServo(servo)
  /\ UNCHANGED <<Globals_NoServo, solver>>

\* the machine leaves PMV_BAJO
ServoLeave ==
  /\ servo.active
  /\ servo' = onLeavingPMV_Bajo_servo(servo)
  /\ UNCHANGED <<Globals_NoServo, solver>>

ServoNext == ServoEnter \/ ServoMove \/ ServoLeave

ServoSpec == Init /\ [][ServoNext]_vars

(* C25: while TaskServo runs, that is from the entry action of PMV_BAJO to its  *)
(* exit action, the angle last written to the servo is between 20 and 90.      *)
C25_ServoInRange ==
  servo.active => (servo.written[1] >= 20 /\ servo.written[1] <= 90)

----------------------------------------------------------------------------
\* the timeout each timed state arms on entry, in ms
DocTimeout == [CONFIG |-> 5000, MONITOR |-> 7000, PMV_BAJO |-> 3000, PMV_ALTO |-> 4000]

(* C26: at the end of every iteration that ends in CONFIG, MONITOR, PMV_BAJO   *)
(* or PMV_ALTO, TaskTime is running with the interval that state arms on       *)
(* entry, and an iteration that stays in the state without firing TaskTime     *)
(* does not move its countdown back.                                          *)
C26_TimeoutOfState ==
  [][state' \in DOMAIN DocTimeout =>
       /\ taskTime'.active
       /\ taskTime'.interval = DocTimeout[state']
       /\ (state' = state /\ hist'.calls = <<>> /\ ~hist'.fired) =>
            taskTime'.elapsed >= taskTime.elapsed]_vars

----------------------------------------------------------------------------
(* Fairness of the timer is that iterations which find that time has passed    *)
(* (dt > 0) keep happening.  A visit that such iterations can prolong for ever *)
(* has an iteration with dt > 0 that ends where it began; a visit they must    *)
(* end has a bounded quantity that each of them brings nearer to its bound.    *)

\* what an iteration on the inputs in leaves in the variables
After(in) == [loopBody(Cur, in) EXCEPT !.writes = 0]

(* C27: with time passing, every visit to CONFIG is followed by MONITOR; so no  *)
(* iteration in CONFIG that finds time has passed ends in the configuration it  *)
(* began in, whatever card and name it reads.                                 *)
C27_ConfigLeadsToMonitor ==
  state = "CONFIG" => \A in \in LoopInputs(Cur) : in.dt > 0 => After(in) # Cur

\* where the design's table lets each of the three states be left to
DocLeave ==
  [MONITOR |-> {"PMV_BAJO", "PMV_ALTO", "CONFIG"}, PMV_BAJO |-> {"MONITOR"},
   PMV_ALTO |-> {"MONITOR", "ALARMA"}]

(* C28: with time passing, every visit to MONITOR, PMV_BAJO or PMV_ALTO ends   *)
(* in a transition to a state the table allows.  In each of them TaskTime is   *)
(* running short of its interval, and every iteration, whatever it reads,      *)
(* either takes such a transition or stays and adds the time passed to the     *)
(* countdown, the interval unchanged: the time left is bounded and every       *)
(* iteration that finds time has passed shortens it until the state is left.   *)
C28_TimedStatesAreLeft ==
  state \in DOMAIN DocLeave =>
    /\ taskTime.active /\ taskTime.elapsed < taskTime.interval
    /\ \A in \in LoopInputs(Cur) :
         LET r == After(in)
         IN IF r.hist.calls # <<>>
              THEN r.state \in DocLeave[state]
              ELSE /\ r.state = state
                   /\ r.taskTime.active /\ r.taskTime.interval = taskTime.interval
                   /\ r.taskTime.elapsed = taskTime.elapsed + in.dt

\* the timeout of PMV_ALTO has ended a visit to it: the iteration that fired TaskTime
\* left for MONITOR
C28_Witness ==
  /\ state = "MONITOR" /\ hist.fired /\ hist.evalInput = "TIEMPO_EXPIRADO"
  /\ hist.calls = <<"onLeavingPMV_Alto", "outputMonitor">>

----------------------------------------------------------------------------
(* The tag registry at work: the same loop() on an EEPROM that earlier runs    *)
(* have filled to any degree, with several cards at the reader, the correct    *)
(* password typed, a neutral climate and no serial command, key or movement.   *)

\* the i-th record earlier runs left: UIDs of 4 and of 7 bytes, under the name "u"
Known(i) ==
  [size |-> IF i % 2 = 0 THEN 4 ELSE 7,
   uid |-> <<i + 1, 0, 0, 0>> \o (IF i % 2 = 0 THEN <<>> ELSE <<0, 0, 0>>)]

\* the EEPROM after the first k registrations
Filled(k) ==
  [i \in 0..(MAX_RECORDS - 1) |->
     IF i < k THEN [len |-> Known(i).size, uid |-> Known(i).uid, name |-> NameField(<<117>>)]
     ELSE FreeRecord]

\* the cards at the reader: two that earlier runs may have registered, one that
\* differs from the first of them in its last byte only, one that continues the
\* first one's four bytes to seven
RegCards ==
  {Known(0), Known(1), [size |-> 4, uid |-> <<1, 0, 0, 9>>],
   [size |-> 7, uid |-> <<1, 0, 0, 0, 0, 0, 0>>]}

\* the lines typed as names: "ana" and a line of 17 characters
RegNames == {<<97, 110, 97>>, [i \in 1..17 |-> 97 + i]}

RegNeutral == [ta |-> F(300), rh |-> F(50), raw |-> 0]

\* what one iteration reads in this environment
RegInputs(m) ==
  {[ch |-> "", dt |-> d, due |-> {}, key |-> "", sample |-> RegNeutral, pirLow |-> FALSE,
    env |-> [pw |-> clave, idle |-> FALSE, sample |-> RegNeutral, temp |-> F(0)],
    rf |-> r] :
     d \in DtSet,
     r \in {NoCard} \cup
           (IF m.state = "CONFIG"
              THEN {[present |-> TRUE, size |-> c.size, uid |-> c.uid, timeout |-> FALSE,
                     text |-> n] : c \in RegCards, n \in RegNames}
              ELSE {})}

RegistryInit ==
  /\ PowerUp({Filled(k) : k \in 0..MAX_RECORDS}, [keys : {clave}, idle : {FALSE}])
  /\ solver = NoCall

RegistryLoop ==
  (\E in \in RegInputs(Cur) : Assign(loopBody(Cur, in))) /\ UNCHANGED solver

RegistrySpec == RegistryInit /\ [][RegistryLoop]_vars

\* the records of ee that are free
Free(ee) == {i \in DOMAIN ee : ee[i].len = 255}

(* C29: whenever an iteration writes to the registry, it has saved a card and  *)
(* the name buffer in the first free record: a lookup of that card then        *)
(* returns that record's address, readNameFromEEPROM at that address returns   *)
(* the name saved, and every other record is as it was.                       *)
C29_RegistryRoundTrip ==
  [][eeprom' # eeprom =>
       \E c \in RegCards, n \in RegNames :
         LET name == toCharArray(n, NAME_MAX_LENGTH)
             slot == CHOOSE i \in Free(eeprom) : \A j \in Free(eeprom) : i <= j
         IN /\ Free(eeprom) # {}
            /\ eeprom' = saveUIDAndName(eeprom, c.uid, c.size, name)
            /\ findUIDInEEPROM(eeprom', c.uid, c.size) = slot * RECORD_SIZE
            /\ readNameFromEEPROM(eeprom', slot * RECORD_SIZE, NAME_MAX_LENGTH) = name
            /\ \A i \in DOMAIN eeprom : i # slot => eeprom'[i] = eeprom[i]]_vars

\* the 7-byte card that continues the first record's UID was saved in the fourth
\* record under the 15 characters kept of the long line
C29_Witness ==
  /\ eeprom[3] = [len |-> 7, uid |-> <<1, 0, 0, 0, 0, 0, 0>>,
                  name |-> NameField([i \in 1..15 |-> 97 + i])]
  /\ eeprom[2].name = NameField(<<117>>) /\ eeprom[4] = FreeRecord
  /\ findUIDInEEPROM(eeprom, <<1, 0, 0, 0, 0, 0, 0>>, 7) = 3 * RECORD_SIZE
  /\ tarjetaProcesada /\ taskTime.interval = 2000

(* C30: an iteration that begins with no free record leaves every record as   *)
(* it was, whatever card and name it reads, and a card that was not found      *)
(* before it is not found after it.                                           *)
C30_FullRegistryRejects ==
  [][Free(eeprom) = {} =>
       /\ eeprom' = eeprom
       /\ \A c \in RegCards :
            findUIDInEEPROM(eeprom, c.uid, c.size) = -1 =>
              findUIDInEEPROM(eeprom', c.uid, c.size) = -1]_vars

\* with all ten records still the ones of earlier runs, a card that is not among
\* them went through the saving branch and is not found
C30_Witness ==
  /\ eeprom = Filled(MAX_RECORDS)
  /\ tarjetaProcesada /\ taskTime.interval = 2000 /\ state = "CONFIG"
  /\ findUIDInEEPROM(eeprom, <<1, 0, 0, 9>>, 4) = -1

----------------------------------------------------------------------------
(* Cancelled registrations *)

\* the iteration on the inputs in up to and including stateMachine.Update(): what
\* handleConfigRFID finds when loop() calls it
beforeRFID(m, in) ==
  LET m1 == loopRead(Begin(m), in.ch)
      m2 == TasksUpdate(TaskTimeUpdate(m1, in.dt), in.due)
      m5 == loopChecks(m2, in.key, in.sample, in.pirLow)
  IN Update(m5, in.env)

\* handleConfigRFID asks for a name (CONFIG, no card processed yet, a card that
\* findUIDInEEPROM does not find) and gets none within 15 s, or an empty one
Cancels(m, rf) ==
  /\ m.state = "CONFIG" /\ ~m.tarjetaProcesada /\ rf.present
  /\ findUIDInEEPROM(m.eeprom, rf.uid, rf.size) = -1
  /\ (rf.timeout \/ Len(rf.text) = 0)

(* C31: a registration attempt whose name wait times out, or whose name is    *)
(* empty, is cancelled: handleConfigRFID leaves the registry, the processed   *)
(* mark (false) and the state (CONFIG) as it found them and leaves TaskTime   *)
(* running; and from a CONFIG visit in which an attempt was cancelled (the    *)
(* 1500 ms interval is armed) every iteration without a card either enters    *)
(* MONITOR through outputMonitor or stays in CONFIG with the countdown        *)
(* advanced by the time that passed.                                          *)
C31_CancelledAttempt ==
  /\ \A in \in LoopInputs(Cur) :
       in.rf.present =>
         LET b == beforeRFID(Cur, in)
             a == handleConfigRFID(b, in.rf)
         IN /\ loopBody(Cur, in) = a
            /\ Cancels(b, in.rf) =>
                 /\ a.eeprom = b.eeprom
                 /\ a.tarjetaProcesada = FALSE
                 /\ a.state = "CONFIG"
                 /\ a.taskTime.active /\ a.taskTime.elapsed < a.taskTime.interval
  /\ (state = "CONFIG" /\ taskTime.interval = 1500) =>
       /\ taskTime.active /\ taskTime.elapsed < taskTime.interval
       /\ \A in \in LoopInputs(Cur) :
            ~in.rf.present =>
              LET a == loopBody(Cur, in)
              IN \/ a.state = "MONITOR" /\ a.hist.calls = <<"outputMonitor">>
                 \/ /\ a.state = "CONFIG"
                    /\ a.taskTime.interval = 1500
                    /\ a.taskTime.elapsed = taskTime.elapsed + in.dt

\* the name wait of a registration attempt has just timed out in CONFIG
C31_Witness ==
  /\ state = "CONFIG" /\ hist.waited /\ ~tarjetaProcesada
  /\ taskTime = [active |-> TRUE, interval |-> 1500, elapsed |-> 0]
  /\ \A i \in DOMAIN eeprom : eeprom[i] = FreeRecord

----------------------------------------------------------------------------
(* loop() when an iteration may be a long one.  The statement that closes     *)
(* loop(), if (Serial.available()) Serial.readString(), returns only once no  *)
(* character has arrived for the stream's timeout, so that serial traffic     *)
(* holds the iteration for as long as it goes on; the time until the next     *)
(* TaskTime.Update() is then DrainDt instead of at most MaxDtSteps * DtStep.  *)

\* the time an iteration takes when its closing Serial.readString() keeps reading
DrainDt == 5000

\* what one iteration reads in this environment: the character waiting on the serial
\* line (whether or not the intake reads it), the keypad, the PIR and the DHT where
\* the code reads them, no card, no blink task due.  The first iteration follows
\* setup(), which ends without reading the serial line (calls = <<"outputInicio">>
\* marks it: an entry into INICIO made by loop() follows an exit action)
DrainInputs(m) ==
  {[ch |-> c, dt |-> d, due |-> {}, key |-> k, sample |-> s, pirLow |-> p,
    env |-> [pw |-> pw, idle |-> FALSE, sample |-> es, temp |-> t],
    rf |-> NoCard] :
     es \in EntrySamples,
     c \in SerialChars,
     d \in DtSet \cup (IF m.hist.calls = <<"outputInicio">> THEN {} ELSE {DrainDt}),
     k \in KeySet(m),
     s \in (IF m.state = "MONITOR"
              THEN {[ta |-> F(300), rh |-> F(50), raw |-> r] : r \in {-350, 0, 350}}
              ELSE {NoSample}),
     p \in PirSet(m),
     pw \in (IF m.state \in {"BLOQUEO", "ALARMA"} THEN Passwords ELSE {m.clave_user}),
     t \in (IF m.state = "MONITOR" THEN {F(300), F(301)} ELSE {F(0)})}

DrainInit ==
  /\ PowerUp(InitialEEPROMs, [keys : Passwords, idle : {FALSE}])
  /\ solver = NoCall

DrainLoop ==
  (\E in \in DrainInputs(Cur) : Assign(loopBody(Cur, in))) /\ UNCHANGED solver

DrainSpec == DrainInit /\ [][DrainLoop]_vars

\* the input outputInicio leaves pending for the six keys user
Credential(user) ==
  IF checkPasswordFrom(user, 1) THEN "CLAVE_CORRECTA" ELSE "SISTEMA_BLOQUEADO"

(* C32: an iteration takes the machine from INICIO to CONFIG only when        *)
(* checkPassword is true of the six keys captured on entering INICIO, and the *)
(* input it evaluated is the CLAVE_CORRECTA that outputInicio raised; in      *)
(* INICIO the input evaluated is never one read from the serial line: the     *)
(* pending input is the credential result, or TIEMPO_EXPIRADO once TaskTime   *)
(* has fired in INICIO, and it is evaluated as it is unless TaskTime fires.   *)
C32_ConfigOnlyOnCredential ==
  [][state = "INICIO" =>
       /\ state' = "CONFIG" =>
            /\ checkPasswordFrom(clave_user, 1)
            /\ input = "CLAVE_CORRECTA"
            /\ hist'.evalInput = "CLAVE_CORRECTA"
       /\ input \in {Credential(clave_user), "TIEMPO_EXPIRADO"}
       /\ hist'.evalInput = (IF hist'.fired THEN "TIEMPO_EXPIRADO" ELSE input)
       /\ ~hist'.unmapped]_vars

\* CONFIG has just been entered from INICIO on the secret
C32_Witness ==
  /\ state = "CONFIG" /\ hist.calls = <<"outputConfig">>
  /\ hist.evalInput = "CLAVE_CORRECTA" /\ ~hist.fired
  /\ clave_user = clave
  /\ taskTime = [active |-> TRUE, interval |-> 5000, elapsed |-> 0]

----------------------------------------------------------------------------
(* Entries into ALARMA *)

\* C33 as stated: an iteration enters ALARMA only when the iteration before it entered
\* PMV_ALTO and that entry raised TEMP_ALTA_3_INTENTOS, and the counter is then 0
C33_AlarmOnlyAfterThirdHot ==
  [][(state # "ALARMA" /\ state' = "ALARMA") =>
       /\ JustEnteredAlto /\ Reads[Len(Reads)].raised
       /\ conteoTempAlta' = 0]_vars

(* C33: an iteration enters ALARMA only from PMV_ALTO, on the input           *)
(* TEMP_ALTA_3_INTENTOS, and leaves the counter as it is.  Either the input   *)
(* was pending: then the iteration before entered PMV_ALTO, outputPMV_Alto    *)
(* raised it and the counter is 0.  Or no input was pending and the iteration *)
(* read it from the serial line ('6'): then the counter is what the visit to  *)
(* PMV_ALTO left, 0, 1 or 2.                                                  *)
C33_AlarmEntry ==
  [][(state # "ALARMA" /\ state' = "ALARMA") =>
       /\ state = "PMV_ALTO"
       /\ hist'.evalInput = "TEMP_ALTA_3_INTENTOS"
       /\ hist'.calls = <<"onLeavingPMV_Alto", "outputAlarma">>
       /\ conteoTempAlta' = conteoTempAlta
       /\ IF input = "TEMP_ALTA_3_INTENTOS"
            THEN /\ JustEnteredAlto /\ Reads[Len(Reads)].raised
                 /\ conteoTempAlta = 0
            ELSE /\ input = "Unknown"
                 /\ conteoTempAlta \in 0..2]_vars

\* ALARMA has been entered with two hot readings counted
C33_Witness ==
  /\ state = "ALARMA" /\ hist.calls = <<"onLeavingPMV_Alto", "outputAlarma">>
  /\ hist.evalInput = "TEMP_ALTA_3_INTENTOS"
  /\ conteoTempAlta = 2

----------------------------------------------------------------------------
(* Timer expiries and the visit that armed them *)

\* the states whose entry action arms TaskTime and that have a rule on TIEMPO_EXPIRADO
\* (MONITOR also through checkPMV)
TimedStates == {"CONFIG", "MONITOR", "PMV_BAJO", "PMV_ALTO"}

\* the intervals a visit to each of them arms: the entry action's, and in CONFIG those
\* of handleConfigRFID
ArmedIn ==
  [s \in TimedStates |->
     IF s = "CONFIG" THEN {DocTimeout[s], 1500, 2000} ELSE {DocTimeout[s]}]

(* C34: a transition that a TaskTime expiry causes is caused by a countdown    *)
(* started in the visit it ends.  Every iteration that enters CONFIG, MONITOR, *)
(* PMV_BAJO or PMV_ALTO ends with TaskTime just started on an interval of the  *)
(* state entered; at the start of every iteration in one of these states       *)
(* TaskTime is running on an interval of that state, not yet elapsed, and no   *)
(* TIEMPO_EXPIRADO is pending; an iteration in which TaskTime fires and the    *)
(* input it produced (TIEMPO_EXPIRADO, or the one checkPMV derives) is the one *)
(* a transition is taken on starts in one of these states; and a transition on *)
(* TIEMPO_EXPIRADO without TaskTime firing is one read from the serial line.   *)
C34_NoStaleTimer ==
  [][/\ (hist'.calls # <<>> /\ state' \in TimedStates) =>
          /\ taskTime'.active /\ taskTime'.elapsed = 0
          /\ taskTime'.interval \in ArmedIn[state']
     /\ state \in TimedStates =>
          /\ input # "TIEMPO_EXPIRADO"
          /\ taskTime.active /\ taskTime.elapsed < taskTime.interval
          /\ taskTime.interval \in ArmedIn[state]
     /\ (hist'.calls # <<>> /\ hist'.fired
           /\ (hist'.evalInput = "TIEMPO_EXPIRADO" \/ hist'.chk.ran)) =>
          state \in TimedStates
     /\ (hist'.calls # <<>> /\ ~hist'.fired /\ hist'.evalInput = "TIEMPO_EXPIRADO") =>
          input = "Unknown"]_vars

\* the countdown of a visit to MONITOR has expired and taken the machine to CONFIG
C34_Witness ==
  /\ state = "CONFIG" /\ hist.calls = <<"outputConfig">>
  /\ hist.fired /\ hist.chk.ran /\ hist.evalInput = "TIEMPO_EXPIRADO"
  /\ taskTime = [active |-> TRUE, interval |-> 5000, elapsed |-> 0]

(* C35: tiempoMonitorVencido is false at the end of every iteration: the       *)
(* checkPMV call that follows TaskTime.Update() in the same iteration clears   *)
(* it, and runTime sets it in MONITOR only.                                    *)
C35_FlagConsumed == tiempoMonitorVencido = FALSE

\* TaskTime has fired in MONITOR, checkPMV has run and the flag is false again
C35_Witness ==
  /\ hist.fired /\ hist.chk.ran /\ ~tiempoMonitorVencido
  /\ state = "PMV_BAJO" /\ hist.calls = <<"outputPMV_Bajo">>

(* C36: an iteration that starts in INICIO, where outputInicio has captured    *)
(* the six keys and raised its result, ends in CONFIG or in BLOQUEO.           *)
C36_StartLeftAtOnce ==
  [][state = "INICIO" => state' \in {"CONFIG", "BLOQUEO"}]_vars

----------------------------------------------------------------------------
(* Uniqueness of the registered cards *)

\* the records of ee that hold a card
Occupied(ee) == DOMAIN ee \ Free(ee)

\* the occupied records of ee that hold the card c
SlotsOf(ee, c) == {i \in Occupied(ee) : ee[i].len = c.size /\ ee[i].uid = c.uid}

(* C37: no two occupied records hold the same UID (same length byte, same UID  *)
(* bytes): handleConfigRFID saves a card only after findUIDInEEPROM has not    *)
(* found it in any record.                                                    *)
C37_NoDuplicateUID ==
  \A i, j \in Occupied(eeprom) :
    (eeprom[i].len = eeprom[j].len /\ eeprom[i].uid = eeprom[j].uid) => i = j

\* a card registered in an earlier visit to CONFIG has been presented again and
\* recognized (TaskTime keeps the interval of outputConfig): it is stored once
C37_Witness ==
  /\ state = "CONFIG" /\ tarjetaProcesada /\ taskTime.interval = 5000
  /\ SlotsOf(eeprom, [size |-> 4, uid |-> <<1, 0, 0, 9>>]) = {0}
  /\ Free(eeprom) = DOMAIN eeprom \ {0}

====
